---- MODULE Spec2Model ----
(***************************************************************************)
(* Agent workflow orchestration of mariachicesar/ai-agent: the six API     *)
(* route handlers (chat, promptChaining, routing, parallelization, tool,   *)
(* kbTool).  One request is handled per behaviour; the model provider and  *)
(* the tool executors are the environment and answer nondeterministically. *)
(*                                                                         *)
(* Text is a sequence of one-character strings, so that trim() is          *)
(* computed.  Confidence scores are in tenths (0.7 is 7).                  *)
(***************************************************************************)
EXTENDS Integers, Sequences, FiniteSets, TLC

VARIABLES
    handler,      \* which route handler serves the request
    req,          \* the parsed request body
    pc,           \* position of the handler
    userInput,    \* routing/parallelization: the extracted user input
    conv,         \* the conversation array of the run
    completion,   \* the latest chat completion's message
    sent,         \* the messages argument of the latest model call
    sentTools,    \* whether the latest model call had tools enabled
    modelCalls,   \* number of chat-completion calls issued
    idx,          \* index of the next tool call of the batch
    issued,       \* number of tool calls issued by the model so far
    retryCount,   \* promptChaining: iteration counter
    extractedEventDetails, \* promptChaining: stored details (0 is null)
    eventInfoResult,       \* promptChaining: stored classification
    stages,       \* log of the stage / executor calls made, in order
    toolResults,  \* kbTool: the tool messages collected for the final call
    execLog,      \* how each tool call of the run was disposed of, in order
    tasks,        \* parallelization: the two validation promises
    extractedEvent, \* routing: the classification returned by extractEvent
    lowConfSeen,  \* a classification below the threshold was returned
    resp,         \* the response returned (kind "none" while running)
    userQuestion, \* findBestMatch: the question searched for
    records,      \* findBestMatch: the questions of the records, in order
    bestMatch,    \* findBestMatch: what it returned (see NotSearched)
    current,      \* two requests: the run the event loop is executing
    suspended,    \* two requests: the locals of the run that is awaiting
    fnName,       \* call_function: the tool name it is given
    fnArgs,       \* call_function: the parsed arguments it is given
    fnOut,        \* call_function: what the call did (see NotDispatched)
    hook,         \* client: the hook the component has mounted
    messages,     \* client: the messages state of the hook
    currentWorkflow,  \* client: the currentWorkflow state of the hook
    hookCalls     \* client: the calls made of the hook's functions, in order

\* the variables of one request
runVars == <<handler, req, pc, userInput, conv, completion, sent, sentTools,
             modelCalls, idx, issued, retryCount, extractedEventDetails,
             eventInfoResult, stages, toolResults, execLog, tasks,
             extractedEvent, lowConfSeen, resp>>

\* the variables of a call of findBestMatch taken alone
searchVars == <<userQuestion, records, bestMatch>>

\* the variables of a second request handled at the same time
pairVars == <<current, suspended>>

\* the variables of a call of call_function (tool/route.ts) taken alone
dispatchVars == <<fnName, fnArgs, fnOut>>

\* the variables of a hook of the client
hookVars == <<hook, messages, currentWorkflow, hookCalls>>

\* the variables a request handler leaves alone
otherVars == <<searchVars, pairVars, dispatchVars, hookVars>>

vars == <<runVars, otherVars>>

----------------------------------------------------------------------------
(* Bounds *)

\* most tool calls in one completion
MaxBatch == 2
\* most tool calls issued by the model over one run
MaxCalls == 2
\* most records of the knowledge base findBestMatch is given
MaxRecords == 2
\* two requests at a time: most tool calls the model issues in each run
MaxPairCalls == 1
\* termination: most model calls a promptChaining run is let make
MaxModelCalls == 6
\* client: most calls made of the functions of a hook
MaxHookCalls == 2

----------------------------------------------------------------------------
(* Values and text *)

Undef == [t |-> "undef", s |-> <<>>]
Num == [t |-> "num", s |-> <<>>]
Str(s) == [t |-> "str", s |-> s]
Tag(k) == [t |-> k, s |-> <<>>]

RECURSIVE TrimStart(_)
TrimStart(s) == IF s # <<>> /\ Head(s) = " " THEN TrimStart(Tail(s)) ELSE s

RECURSIVE TrimEnd(_)
TrimEnd(s) ==
    IF s # <<>> /\ s[Len(s)] = " " THEN TrimEnd(SubSeq(s, 1, Len(s) - 1)) ELSE s

\* String.prototype.trim
Trim(s) == TrimEnd(TrimStart(s))

\* JavaScript truthiness of a request value
Truthy(v) == \/ v.t = "num"
             \/ v.t = "str" /\ v.s # <<>>

Texts == { <<>>, <<" ">>, <<" ", "a", " ">> }

Msg(role, content) ==
    [role |-> role, content |-> content, tool_calls |-> <<>>,
     has_calls |-> FALSE, tool_call_id |-> 0]

\* request bodies: json is FALSE when the body is not valid JSON;
\* messages.t is "undef" (missing), "num" (not an array) or "arr"
Body(json, mt, ms, ui) ==
    [json |-> json, mt |-> mt, messages |-> ms, userInput |-> ui]

Requests ==
    { Body(FALSE, "undef", <<>>, Undef) }
    \cup { Body(TRUE, mt, <<>>, ui) :
             mt \in {"undef", "num"},
             ui \in {Undef, Num, Str(<<" ">>), Str(<<" ", "a", " ">>)} }
    \cup { Body(TRUE, "arr", <<>>, Str(<<"a">>)) }
    \cup { Body(TRUE, "arr", <<Msg("user", Str(s))>>, Undef) : s \in Texts }
    \cup { Body(TRUE, "arr", <<Msg("assistant", Str(<<"a">>))>>, Undef) }
    \cup { Body(TRUE, "arr",
                <<Msg("user", Str(<<"a">>)), Msg("user", Str(<<" ">>))>>,
                Undef) }

Handlers ==
    {"chat", "promptChaining", "routing", "parallelization", "tool", "kbTool"}

\* the requests a handler is given; promptChaining copies the history into
\* the conversation without reading it, so two histories are enough there
RequestsOf(h) ==
    IF h = "promptChaining"
      THEN { r \in Requests :
               r.mt = "arr" => /\ Len(r.messages) = 1
                               /\ r.messages[1].role = "user"
                               /\ r.messages[1].content.s # <<>> }
      ELSE Requests

\* responses; cause is the exception the catch block of POST caught, if any
\* results is the set of keys of the validationResults object of the payload
NoResp ==
    [kind |-> "none", status |-> 0, error |-> "", message |-> "", cause |-> "",
     results |-> {}]
Success(m) ==
    [kind |-> "success", status |-> 200, error |-> "", message |-> m,
     cause |-> "", results |-> {}]
Error(st, e) ==
    [kind |-> "error", status |-> st, error |-> e, message |-> "",
     cause |-> "", results |-> {}]
Caught(e, cause) ==
    [kind |-> "error", status |-> 500, error |-> e, message |-> "",
     cause |-> cause, results |-> {}]
\* an exception that leaves POST uncaught
Escaped ==
    [kind |-> "escaped", status |-> 0, error |-> "exception", message |-> "",
     cause |-> "json", results |-> {}]

NoCompletion == [content |-> "none", has_calls |-> FALSE, tool_calls |-> <<>>]
NoTask == [st |-> "idle", inp |-> <<>>]
NoEvent == [request_type |-> "none", confidence_score |-> -1]

\* confidence scores the model may report, in tenths: below, at and above
\* the threshold of a handler
ConfidencesAt(threshold) == {threshold - 1, threshold, threshold + 1}

\* mutant: a messages field that is not an array passes as an empty one
IsArrayLenient == req.json

\* messages && Array.isArray(messages)
IsArray == req.json /\ req.mt = "arr"

\* findBestMatch has not returned; it returned the record at position i of
\* the list, or null (i = 0)
NotSearched == [returned |-> FALSE, record |-> 0]
Returned(i) == [returned |-> TRUE, record |-> i]

\* no call of findBestMatch is looked at
NoSearch ==
    /\ userQuestion = <<>>
    /\ records = <<>>
    /\ bestMatch = NotSearched

\* no second request
NoContext == [pc |-> "none"]

Alone ==
    /\ current = 1
    /\ suspended = NoContext

\* call_function taken alone: arguments as JSON.parse returns them, an array
\* (items), an object (latitude, longitude) or null; a number is written as
\* text, and "undefined" is a missing element or property
Args(shape, items, latitude, longitude) ==
    [shape |-> shape, items |-> items, latitude |-> latitude,
     longitude |-> longitude]

NotDispatched == [done |-> FALSE]

\* no call of call_function taken alone
NoDispatch ==
    /\ fnName = ""
    /\ fnArgs = Args("null", <<>>, "undefined", "undefined")
    /\ fnOut = NotDispatched

\* no hook mounted
NoHook ==
    /\ hook = ""
    /\ messages = <<>>
    /\ currentWorkflow = ""
    /\ hookCalls = <<>>

\* the run-scoped state when POST is entered
Entered ==
    /\ pc = "start"
    /\ userInput = Undef
    /\ conv = <<>>
    /\ completion = NoCompletion
    /\ sent = <<>>
    /\ sentTools = FALSE
    /\ modelCalls = 0
    /\ idx = 0
    /\ issued = 0
    /\ retryCount = 0
    /\ extractedEventDetails = 0
    /\ eventInfoResult = -1
    /\ stages = <<>>
    /\ toolResults = <<>>
    /\ execLog = <<>>
    /\ tasks = [k \in {"event", "security"} |-> NoTask]
    /\ extractedEvent = NoEvent
    /\ lowConfSeen = FALSE
    /\ resp = NoResp

Init ==
    /\ handler \in Handlers
    /\ req \in RequestsOf(handler)
    /\ Entered
    /\ NoSearch
    /\ Alone
    /\ NoDispatch
    /\ NoHook

\* the handler returns r
Return(r) == /\ resp' = r
             /\ pc' = "done"

----------------------------------------------------------------------------
(* chat/route.ts *)

ChatPOST ==
    /\ handler = "chat"
    /\ pc = "start"
    /\ IF ~req.json
         THEN /\ Return(Caught("Failed to generate response", "json"))
              /\ UNCHANGED <<conv>>
         ELSE IF ~IsArray
           THEN /\ Return(Error(400, "Messages array is required"))
                /\ UNCHANGED <<conv>>
           ELSE /\ conv' = req.messages
                /\ pc' = "model"
                /\ UNCHANGED resp
    /\ UNCHANGED <<otherVars, handler, req, userInput, completion, sent,
                   sentTools, modelCalls, idx, issued, retryCount,
                   extractedEventDetails, eventInfoResult, stages,
                   toolResults, execLog, tasks, extractedEvent, lowConfSeen>>

ChatCompletion ==
    /\ handler = "chat"
    /\ pc = "model"
    /\ modelCalls' = modelCalls + 1
    /\ sent' = conv
    /\ sentTools' = FALSE
    /\ \E ok \in BOOLEAN :
         IF ok THEN Return(Success("completion"))
               ELSE Return(Caught("Failed to generate response", "provider"))
    /\ UNCHANGED <<otherVars, handler, req, userInput, conv, completion, idx,
                   issued, retryCount, extractedEventDetails, eventInfoResult,
                   stages, toolResults, execLog, tasks, extractedEvent,
                   lowConfSeen>>

----------------------------------------------------------------------------
(* routing/route.ts *)

RoutingThreshold == 6

RECURSIVE UserContents(_)
\* contents of the messages with role user and a truthy content
UserContents(ms) ==
    IF ms = <<>> THEN <<>>
    ELSE IF Head(ms).role = "user" /\ Truthy(Head(ms).content)
           THEN <<Head(ms).content>> \o UserContents(Tail(ms))
           ELSE UserContents(Tail(ms))

\* the user input taken from the body (routing and parallelization)
BodyUserInput(b) ==
    IF b.mt = "arr"
      THEN IF UserContents(b.messages) # <<>>
             THEN UserContents(b.messages)[Len(UserContents(b.messages))]
             ELSE Undef
      ELSE IF Truthy(b.userInput) THEN b.userInput ELSE Undef

\* the 400 answers of the routing handler; "" when the input is accepted
RoutingInputError(v) ==
    IF ~Truthy(v) THEN "Missing required field"
    ELSE IF v.t # "str" THEN "User input must be a string"
    ELSE IF Trim(v.s) = <<>> THEN "User input cannot be empty"
    ELSE ""

RoutingPOST ==
    /\ handler = "routing"
    /\ pc = "start"
    /\ IF ~req.json
         THEN /\ Return(Caught("invalid JSON", "json"))
              /\ UNCHANGED userInput
         ELSE /\ userInput' = BodyUserInput(req)
              /\ IF RoutingInputError(userInput') # ""
                   THEN Return(Error(400, RoutingInputError(userInput')))
                   ELSE /\ pc' = "extractEvent"
                        /\ UNCHANGED resp
    /\ UNCHANGED <<otherVars, handler, req, conv, completion, sent, sentTools,
                   modelCalls, idx, issued, retryCount, extractedEventDetails,
                   eventInfoResult, stages, toolResults, execLog, tasks,
                   extractedEvent, lowConfSeen>>

\* the messages of a structured-output stage call
StageMessages(text) == <<Msg("system", Tag("prompt")), Msg("user", Str(text))>>

\* mutant: the confidence gate of line 197 is missing
RoutingBranchNoGate(ev) ==
    IF ev.request_type = "new_event" THEN "newEvent"
    ELSE IF ev.request_type = "modify_event" THEN "modifyEvent"
    ELSE "other"

\* mutant: the final else of line 243 runs the newEvent stage
RoutingBranchDefaultNew(ev) ==
    IF ev.confidence_score < RoutingThreshold THEN "lowConfidence"
    ELSE IF ev.request_type = "modify_event" THEN "modifyEvent"
    ELSE "newEvent"

\* where the handler goes after a classification
RoutingBranch(ev) ==
    IF ev.confidence_score < RoutingThreshold THEN "lowConfidence"
    ELSE IF ev.request_type = "new_event" THEN "newEvent"
    ELSE IF ev.request_type = "modify_event" THEN "modifyEvent"
    ELSE "other"

RoutingExtractEvent ==
    /\ handler = "routing"
    /\ pc = "extractEvent"
    /\ modelCalls' = modelCalls + 1
    /\ sent' = StageMessages(Trim(userInput.s))
    /\ sentTools' = FALSE
    /\ stages' = Append(stages, "extractEvent")
    /\ \/ /\ Return(Caught("extractEvent failed", "stage"))
          /\ UNCHANGED <<extractedEvent, lowConfSeen>>
       \/ \E ty \in {"new_event", "modify_event", "other"},
             c \in ConfidencesAt(RoutingThreshold) :
            /\ extractedEvent' = [request_type |-> ty, confidence_score |-> c]
            /\ lowConfSeen' = (c < RoutingThreshold)
            /\ LET b == RoutingBranch(extractedEvent') IN
                 IF b = "lowConfidence"
                   THEN Return(Error(400, "Low confidence score"))
                 ELSE IF b = "other"
                   THEN Return(Success("not calendar-related"))
                 ELSE /\ pc' = b
                      /\ UNCHANGED resp
    /\ UNCHANGED <<otherVars, handler, req, userInput, conv, completion, idx,
                   issued, retryCount, extractedEventDetails, eventInfoResult,
                   toolResults, execLog, tasks>>

\* newEvent and modifyEvent, the two branch stages
RoutingBranchStage(name) ==
    /\ handler = "routing"
    /\ pc = name
    /\ modelCalls' = modelCalls + 1
    /\ sent' = StageMessages(<<"d">>)
    /\ sentTools' = FALSE
    /\ stages' = Append(stages, name)
    /\ \/ Return(Caught(name \o " failed", "stage"))
       \/ Return(Success(name))
    /\ UNCHANGED <<otherVars, handler, req, userInput, conv, completion, idx,
                   issued, retryCount, extractedEventDetails, eventInfoResult,
                   toolResults, execLog, tasks, extractedEvent, lowConfSeen>>

RoutingNewEvent == RoutingBranchStage("newEvent")

RoutingModifyEvent == RoutingBranchStage("modifyEvent")

----------------------------------------------------------------------------
(* parallelization/route.ts *)

\* validateEvent(input) and checkSecurity(input) are both called, each up
\* to its model call, while the argument array of Promise.all is built
StartTasks(input) ==
    [k \in {"event", "security"} |-> [st |-> "pending", inp |-> input]]

\* mutant: the join settles with the first fulfilled promise
PromiseAllFirst(ts) ==
    IF \E k \in DOMAIN ts : ts[k].st = "failed" THEN "rejected"
    ELSE IF \E k \in DOMAIN ts : ts[k].st = "ok" THEN "fulfilled"
    ELSE "pending"

\* mutant: the join waits until both promises have settled
PromiseAllSettled(ts) ==
    IF \E k \in DOMAIN ts : ts[k].st = "pending" THEN "pending"
    ELSE IF \E k \in DOMAIN ts : ts[k].st = "failed" THEN "rejected"
    ELSE "fulfilled"

\* the state of Promise.all over the two promises
PromiseAll(ts) ==
    IF \E k \in DOMAIN ts : ts[k].st = "failed" THEN "rejected"
    ELSE IF \A k \in DOMAIN ts : ts[k].st = "ok" THEN "fulfilled"
    ELSE "pending"

ParallelInputOk(v) == Truthy(v) /\ v.t = "str" /\ Trim(v.s) # <<>>

ParallelPOST ==
    /\ handler = "parallelization"
    /\ pc = "start"
    /\ IF ~req.json
         THEN /\ Return(Caught("invalid JSON", "json"))
              /\ UNCHANGED userInput
         ELSE /\ userInput' = BodyUserInput(req)
              /\ IF ~ParallelInputOk(userInput')
                   THEN Return(Error(400, "Missing or invalid user input"))
                   ELSE /\ pc' = "validateInput"
                        /\ UNCHANGED resp
    /\ UNCHANGED <<otherVars, handler, req, conv, completion, sent, sentTools,
                   modelCalls, idx, issued, retryCount, extractedEventDetails,
                   eventInfoResult, stages, toolResults, execLog, tasks,
                   extractedEvent, lowConfSeen>>

ParallelValidateInput ==
    /\ handler = "parallelization"
    /\ pc = "validateInput"
    /\ tasks' = StartTasks(Trim(userInput.s))
    /\ modelCalls' = modelCalls + 2
    /\ sent' = StageMessages(Trim(userInput.s))
    /\ sentTools' = FALSE
    /\ stages' = stages \o <<"validateEvent", "checkSecurity">>
    /\ pc' = "join"
    /\ UNCHANGED <<otherVars, handler, req, userInput, conv, completion, idx,
                   issued, retryCount, extractedEventDetails, eventInfoResult,
                   toolResults, execLog, extractedEvent, lowConfSeen, resp>>

\* the payload of lines 195-199: the message and validationResults, the
\* object of lines 120-123 with the results of the fulfilled promises
ValidationSuccess(ts) ==
    [Success("Parallel Validation Results")
       EXCEPT !.results = { k \in DOMAIN ts : ts[k].st = "ok" }]

\* mutant: the catch of validateInput returns what was fulfilled so far
JoinResponsePartial(k, ts) == ValidationSuccess(ts)

\* the response once Promise.all has settled, k being the promise that
\* settled last: the catch blocks of lines 124-130 and 200-205, or the
\* payload of lines 195-199
JoinResponse(k, ts) ==
    IF PromiseAll(ts) = "rejected"
      THEN Caught("Validation failed: " \o k, "stage")
      ELSE ValidationSuccess(ts)

\* one of the two model calls settles (a provider error and a schema
\* violation both reject the promise); the handler resumes when Promise.all
\* settles, which happens once
ParallelSettle(k) ==
    /\ handler = "parallelization"
    /\ tasks[k].st = "pending"
    /\ \E st \in {"ok", "failed"} :
         tasks' = [tasks EXCEPT ![k].st = st]
    /\ IF pc = "join" /\ PromiseAll(tasks') # "pending"
         THEN Return(JoinResponse(k, tasks'))
         ELSE UNCHANGED <<pc, resp>>
    /\ UNCHANGED <<otherVars, handler, req, userInput, conv, completion, sent,
                   sentTools, modelCalls, idx, issued, retryCount,
                   extractedEventDetails, eventInfoResult, stages,
                   toolResults, execLog, extractedEvent, lowConfSeen>>

ParallelSettleEvent == ParallelSettle("event")

ParallelSettleSecurity == ParallelSettle("security")

----------------------------------------------------------------------------
(* Tool calls, shared by tool/route.ts, kbTool/route.ts and               *)
(* promptChaining/route.ts                                                 *)

Kind(type, name, args) == [type |-> type, name |-> name, args |-> args]

AssistantMsg(content, calls) ==
    [role |-> "assistant", content |-> Tag(content), tool_calls |-> calls,
     has_calls |-> TRUE, tool_call_id |-> 0]

ToolMsg(id, content) ==
    [role |-> "tool", content |-> Tag(content), tool_calls |-> <<>>,
     has_calls |-> FALSE, tool_call_id |-> id]

SystemMsg == Msg("system", Tag("prompt"))

Min(a, b) == IF a < b THEN a ELSE b

\* a tool_calls array of the given kinds, each call with a fresh id
WithIds(ks) ==
    [i \in 1..Len(ks) |-> [id |-> issued + i, type |-> ks[i].type,
                           name |-> ks[i].name, args |-> ks[i].args]]

\* the tool_calls arrays a completion may carry: up to MaxBatch calls of
\* any kind (possibly none) while fewer than MaxCalls calls were issued,
\* and after that a single call of the kind `more'
Batches(kinds, more) ==
    IF issued >= MaxCalls
      THEN { WithIds(<<more>>) }
      ELSE { WithIds(ks) :
               ks \in UNION { [1..n -> kinds] :
                     n \in 0..Min(MaxBatch, MaxCalls - issued) } }

\* the messages a completion may carry: text without tool_calls, or one of
\* the tool_calls arrays
Completions(kinds, more) ==
    { [content |-> "text", has_calls |-> FALSE, tool_calls |-> <<>>] }
    \cup { [content |-> "null", has_calls |-> TRUE, tool_calls |-> calls] :
             calls \in Batches(kinds, more) }

\* mutant: the message is put at the front of the array
PushMessageFront(ms, m) == <<m>> \o ms

\* Array.prototype.push
PushMessage(ms, m) == Append(ms, m)

\* what the loop body does with one tool call
Skipped(cause) == [act |-> "skip", content |-> "", cause |-> cause]
Aborted(cause) == [act |-> "abort", content |-> "", cause |-> cause]
Pushed(content, cause) == [act |-> "push", content |-> content, cause |-> cause]

\* arg: the eventDetails handed to extractEventConfirmation (the id of the
\* call that stored them, -1 for the model-written argument), else 0
LogEntry(call, d, arg) ==
    [id |-> call.id, name |-> call.name, act |-> d.act, content |-> d.content,
     cause |-> d.cause, arg |-> arg]

----------------------------------------------------------------------------
(* tool/route.ts *)

ToolKinds ==
    { Kind("function", "get_weather", a) : a \in {"obj", "arr", "bad"} }
    \cup { Kind("function", "foo", "obj"), Kind("custom", "get_weather", "obj") }

\* get_weather: returns a valid reading, returns a reading that is not two
\* numbers, or throws
WeatherOutcomes == {"ok", "invalid", "throw"}

\* lines 280-314: nothing in the loop body is caught inside the loop
ToolDisposition(call, exec) ==
    IF call.type # "function" THEN Skipped("nonFunction")
    ELSE IF call.args = "bad" THEN Aborted("badArgs")
    ELSE IF call.name # "get_weather" THEN Aborted("unknownTool")
    ELSE IF exec = "throw" THEN Aborted("executorThrow")
    ELSE IF exec = "invalid" THEN Aborted("invalidResult")
    ELSE Pushed("result", "")

\* get_weather(latitude, longitude), lines 54-72: the request it sends is
\* made of the two arguments, and what comes back is the service's answer w
\* to that request
get_weather(latitude, longitude, w) ==
    [kind |-> w, latitude |-> latitude, longitude |-> longitude]

\* args[i] of a JavaScript array
Element(items, i) == IF i < Len(items) THEN items[i + 1] ELSE "undefined"

\* what a call of call_function did: the exception it threw (if any), the
\* executor call it made (if any) and the result it returned
Threw(e) == [threw |-> e, executor |-> <<>>, result |-> <<>>]
Called(lat, lon, w) ==
    IF w = "throw"
      THEN [threw |-> "fetch", executor |-> <<"get_weather", lat, lon>>,
            result |-> <<>>]
      ELSE [threw |-> "", executor |-> <<"get_weather", lat, lon>>,
            result |-> <<get_weather(lat, lon, w)>>]

\* mutant: the positional form reads longitude first
call_functionSwapped(name, args, w) ==
    IF name = "get_weather"
      THEN IF args.shape = "arr"
             THEN Called(Element(args.items, 1), Element(args.items, 0), w)
           ELSE IF args.shape = "null" THEN Threw("TypeError")
           ELSE Called(args.latitude, args.longitude, w)
      ELSE Threw("Unknown function")

\* call_function, lines 141-158
call_function(name, args, w) ==
    IF name = "get_weather"
      THEN IF args.shape = "arr"
             THEN Called(Element(args.items, 0), Element(args.items, 1), w)
           ELSE IF args.shape = "null" THEN Threw("TypeError")
           ELSE Called(args.latitude, args.longitude, w)
      ELSE Threw("Unknown function")

Coordinates == {"-1", "0", "1"}

ArgValues ==
    { Args("arr", items, "undefined", "undefined") :
        items \in UNION { [1..n -> Coordinates] : n \in 0..2 } }
    \cup { Args("obj", <<>>, lat, lon) :
             lat \in Coordinates \cup {"undefined"},
             lon \in Coordinates \cup {"undefined"} }
    \cup { Args("null", <<>>, "undefined", "undefined") }

\* call_function taken alone, with any tool name and any arguments
InitDispatch ==
    /\ handler = "tool"
    /\ req = Body(TRUE, "arr", <<Msg("user", Str(<<"a">>))>>, Undef)
    /\ Entered
    /\ NoSearch
    /\ Alone
    /\ NoHook
    /\ fnName \in {"get_weather", "search_kb", "foo"}
    /\ fnArgs \in ArgValues
    /\ fnOut = NotDispatched

CallFunction ==
    /\ ~fnOut.done
    /\ \E w \in WeatherOutcomes :
         fnOut' = [done |-> TRUE, w |-> w,
                   out |-> call_function(fnName, fnArgs, w)]
    /\ UNCHANGED <<runVars, searchVars, pairVars, hookVars, fnName, fnArgs>>

NextDispatch == CallFunction

SpecDispatch == InitDispatch /\ [][NextDispatch]_vars

ToolPOST ==
    /\ handler = "tool"
    /\ pc = "start"
    /\ IF ~req.json
         THEN /\ Return(Caught("Failed to process request", "json"))
              /\ UNCHANGED conv
         ELSE IF ~IsArray
           THEN /\ Return(Caught("Failed to process request", "messages"))
                /\ UNCHANGED conv
           ELSE /\ conv' = <<SystemMsg>> \o req.messages
                /\ pc' = "model"
                /\ UNCHANGED resp
    /\ UNCHANGED <<otherVars, handler, req, userInput, completion, sent,
                   sentTools, modelCalls, idx, issued, retryCount,
                   extractedEventDetails, eventInfoResult, stages,
                   toolResults, execLog, tasks, extractedEvent, lowConfSeen>>

\* the first call, with tools; an absent tool_calls counts as []
ToolCompletion ==
    /\ handler = "tool"
    /\ pc = "model"
    /\ modelCalls' = modelCalls + 1
    /\ sent' = conv
    /\ sentTools' = TRUE
    /\ \/ /\ Return(Caught("Failed to process request", "provider"))
          /\ UNCHANGED <<completion, conv, idx, issued>>
       \/ \E c \in Completions(ToolKinds,
                                 Kind("function", "get_weather", "obj")) :
            /\ completion' = c
            /\ issued' = issued + Len(c.tool_calls)
            /\ IF Len(c.tool_calls) > 0
                 THEN /\ conv' = Append(conv,
                                        AssistantMsg("null", c.tool_calls))
                      /\ idx' = 1
                      /\ pc' = "tools"
                      /\ UNCHANGED resp
                 ELSE /\ Return(Success("text"))
                      /\ UNCHANGED <<conv, idx>>
    /\ UNCHANGED <<otherVars, handler, req, userInput, retryCount,
                   extractedEventDetails, eventInfoResult, stages,
                   toolResults, execLog, tasks, extractedEvent, lowConfSeen>>

\* one pass of the for loop over toolCalls
ToolExecute ==
    /\ handler = "tool"
    /\ pc = "tools"
    /\ idx <= Len(completion.tool_calls)
    /\ LET call == completion.tool_calls[idx] IN
       \E exec \in WeatherOutcomes :
         LET d == ToolDisposition(call, exec) IN
           /\ execLog' = Append(execLog, LogEntry(call, d, 0))
           /\ stages' = IF d.cause \in {"", "executorThrow", "invalidResult"}
                          THEN Append(stages, call.name) ELSE stages
           /\ IF d.act = "abort"
                THEN /\ Return(Caught("Failed to process request", d.cause))
                     /\ UNCHANGED <<conv, idx>>
                ELSE /\ conv' = IF d.act = "push"
                                  THEN PushMessage(conv,
                                                   ToolMsg(call.id, d.content))
                                  ELSE conv
                     /\ idx' = idx + 1
                     /\ UNCHANGED <<pc, resp>>
    /\ UNCHANGED <<otherVars, handler, req, userInput, completion, sent,
                   sentTools, modelCalls, issued, retryCount,
                   extractedEventDetails, eventInfoResult, toolResults, tasks,
                   extractedEvent, lowConfSeen>>

\* the second call, without tools
ToolSecondCompletion ==
    /\ handler = "tool"
    /\ pc = "tools"
    /\ idx > Len(completion.tool_calls)
    /\ modelCalls' = modelCalls + 1
    /\ sent' = conv
    /\ sentTools' = FALSE
    /\ \/ Return(Caught("Failed to process request", "provider"))
       \/ Return(Success("text"))
    /\ UNCHANGED <<otherVars, handler, req, userInput, conv, completion, idx,
                   issued, retryCount, extractedEventDetails, eventInfoResult,
                   stages, toolResults, execLog, tasks, extractedEvent,
                   lowConfSeen>>

----------------------------------------------------------------------------
(* kbTool/route.ts *)

\* String.prototype.toLowerCase
ToLowerCase(s) ==
    [i \in 1..Len(s) |-> IF s[i] = "A" THEN "a" ELSE s[i]]

\* String.prototype.includes
Includes(s, t) ==
    \E i \in 0..(Len(s) - Len(t)) : SubSeq(s, i + 1, i + Len(t)) = t

\* position of the first space of s, Len(s) + 1 when there is none
FirstSpace(s) ==
    IF \E i \in 1..Len(s) : s[i] = " "
      THEN CHOOSE i \in 1..Len(s) :
             s[i] = " " /\ \A j \in 1..(i - 1) : s[j] # " "
      ELSE Len(s) + 1

RECURSIVE Split(_)
\* String.prototype.split(/\s+/): a separator at either end of s leaves an
\* empty word there, and the empty string has the one word ""
Split(s) ==
    IF FirstSpace(s) > Len(s) THEN <<s>>
    ELSE <<SubSeq(s, 1, FirstSpace(s) - 1)>>
           \o Split(TrimStart(SubSeq(s, FirstSpace(s), Len(s))))

\* userQuestion.toLowerCase().trim()
Normalized(q) == Trim(ToLowerCase(q))

\* strategy 1 (line 89): the question of the record, in lower case and
\* trimmed, is the normalized user question
ExactMatch(nq, question) == Trim(ToLowerCase(question)) = nq

\* strategy 2 (lines 99-105): one question contains the other
PartialMatch(nq, question) ==
    \/ Includes(ToLowerCase(question), nq)
    \/ Includes(nq, ToLowerCase(question))

\* strategy 3 (lines 115-124): a word of the user question contains, or is
\* contained in, a word of the question of the record
KeywordMatch(nq, question) ==
    LET userKeywords == Split(nq)
        recordWords == Split(ToLowerCase(question))
    IN \E u \in 1..Len(userKeywords), r \in 1..Len(recordWords) :
         \/ Includes(recordWords[r], userKeywords[u])
         \/ Includes(userKeywords[u], recordWords[r])

\* Array.prototype.find, as the position of the element found (0: none)
Find(rs, Test(_)) ==
    IF \E i \in 1..Len(rs) : Test(rs[i])
      THEN CHOOSE i \in 1..Len(rs) :
             Test(rs[i]) /\ \A j \in 1..(i - 1) : ~Test(rs[j])
      ELSE 0

\* mutant: one pass over the records, each record tried with every strategy
findBestMatchOnePass(q, rs) ==
    LET nq == Normalized(q)
        Some(question) == \/ ExactMatch(nq, question)
                          \/ PartialMatch(nq, question)
                          \/ KeywordMatch(nq, question)
    IN Returned(Find(rs, Some))

\* lines 81-139
findBestMatch(q, rs) ==
    LET nq == Normalized(q)
        Exact(question) == ExactMatch(nq, question)
        Partial(question) == PartialMatch(nq, question)
        Keyword(question) == KeywordMatch(nq, question)
    IN IF Find(rs, Exact) # 0 THEN Returned(Find(rs, Exact))
       ELSE IF Find(rs, Partial) # 0 THEN Returned(Find(rs, Partial))
       ELSE Returned(Find(rs, Keyword))

\* the questions findBestMatch is tried with, as the user question and as
\* the question of a record
Questions ==
    { <<>>, <<" ">>, <<"a">>, <<"A", " ">>, <<"a", "b">>, <<"b">>,
      <<"b", " ">>, <<"a", " ", "b">>, <<"b", " ", "a">> }

\* findBestMatch taken alone, with any question and any list of records
InitSearch ==
    /\ handler = "kbTool"
    /\ req = Body(TRUE, "arr", <<Msg("user", Str(<<"a">>))>>, Undef)
    /\ Entered
    /\ userQuestion \in Questions
    /\ records \in UNION { [1..n -> Questions] : n \in 0..MaxRecords }
    /\ bestMatch = NotSearched
    /\ Alone
    /\ NoDispatch
    /\ NoHook

FindBestMatchCall ==
    /\ ~bestMatch.returned
    /\ bestMatch' = findBestMatch(userQuestion, records)
    /\ UNCHANGED <<runVars, userQuestion, records, pairVars, dispatchVars,
                   hookVars>>

NextSearch == FindBestMatchCall

SpecSearch == InitSearch /\ [][NextSearch]_vars

KbKinds ==
    { Kind("function", "search_kb", a) : a \in {"obj", "bad"} }
    \cup { Kind("function", "foo", "obj"), Kind("custom", "search_kb", "obj") }

\* call_function("search_kb"): a record is found; the record found does not
\* have a string answer and a number id; the knowledge base cannot be read;
\* no record matches
KbOutcomes == {"ok", "invalid", "throw", "nomatch"}

\* mutant: call_function is called outside the try of line 315
KbDispositionNoTry(call, exec) ==
    IF call.type # "function" THEN Skipped("nonFunction")
    ELSE IF call.args = "bad" THEN Aborted("badArgs")
    ELSE IF call.name # "search_kb" THEN Aborted("unknownTool")
    ELSE IF exec = "throw" THEN Aborted("executorThrow")
    ELSE IF exec = "nomatch" THEN Aborted("noMatch")
    ELSE IF exec = "invalid" THEN Pushed("error", "invalidResult")
    ELSE Pushed("result", "")

\* lines 304-376: JSON.parse is before the try, the rest inside it
KbDisposition(call, exec) ==
    IF call.type # "function" THEN Skipped("nonFunction")
    ELSE IF call.args = "bad" THEN Aborted("badArgs")
    ELSE IF call.name # "search_kb" THEN Pushed("error", "unknownTool")
    ELSE IF exec = "throw" THEN Pushed("error", "executorThrow")
    ELSE IF exec = "nomatch" THEN Pushed("error", "noMatch")
    ELSE IF exec = "invalid" THEN Pushed("error", "invalidResult")
    ELSE Pushed("result", "")

RECURSIVE SelectUser(_)
\* messages.filter((msg) => msg.role === "user")
SelectUser(ms) ==
    IF ms = <<>> THEN <<>>
    ELSE IF Head(ms).role = "user" THEN <<Head(ms)>> \o SelectUser(Tail(ms))
    ELSE SelectUser(Tail(ms))

KbPOST ==
    /\ handler = "kbTool"
    /\ pc = "start"
    /\ IF ~req.json
         THEN /\ Return(Caught("Internal server error", "json"))
              /\ UNCHANGED conv
         ELSE IF ~IsArray \/ Len(req.messages) = 0
           THEN /\ Return(Error(400, "Invalid request format"))
                /\ UNCHANGED conv
         ELSE IF SelectUser(req.messages) = <<>>
           THEN /\ Return(Error(400, "No user message found."))
                /\ UNCHANGED conv
           ELSE /\ conv' = <<SystemMsg,
                             SelectUser(req.messages)[
                                 Len(SelectUser(req.messages))]>>
                /\ pc' = "model"
                /\ UNCHANGED resp
    /\ UNCHANGED <<otherVars, handler, req, userInput, completion, sent,
                   sentTools, modelCalls, idx, issued, retryCount,
                   extractedEventDetails, eventInfoResult, stages,
                   toolResults, execLog, tasks, extractedEvent, lowConfSeen>>

\* the first call, with tools; an empty tool_calls array is truthy
KbCompletion ==
    /\ handler = "kbTool"
    /\ pc = "model"
    /\ modelCalls' = modelCalls + 1
    /\ sent' = conv
    /\ sentTools' = TRUE
    /\ \/ /\ Return(Caught("Internal server error", "provider"))
          /\ UNCHANGED <<completion, idx, issued>>
       \/ \E c \in Completions(KbKinds,
                                 Kind("function", "search_kb", "obj")) :
            /\ completion' = c
            /\ issued' = issued + Len(c.tool_calls)
            /\ IF c.has_calls
                 THEN /\ idx' = 1
                      /\ pc' = "tools"
                      /\ UNCHANGED resp
                 ELSE /\ Return(Success("text"))
                      /\ UNCHANGED idx
    /\ UNCHANGED <<otherVars, handler, req, userInput, conv, retryCount,
                   extractedEventDetails, eventInfoResult, stages,
                   toolResults, execLog, tasks, extractedEvent, lowConfSeen>>

\* one pass of the for loop over tool_calls
KbExecute ==
    /\ handler = "kbTool"
    /\ pc = "tools"
    /\ idx <= Len(completion.tool_calls)
    /\ LET call == completion.tool_calls[idx] IN
       \E exec \in KbOutcomes :
         LET d == KbDisposition(call, exec) IN
           /\ execLog' = Append(execLog, LogEntry(call, d, 0))
           /\ stages' = IF d.act = "push" /\ d.cause # "unknownTool"
                          THEN Append(stages, call.name) ELSE stages
           /\ IF d.act = "abort"
                THEN /\ Return(Caught("Internal server error", d.cause))
                     /\ UNCHANGED <<toolResults, idx>>
                ELSE /\ toolResults' =
                          IF d.act = "push"
                            THEN PushMessage(toolResults,
                                             ToolMsg(call.id, d.content))
                            ELSE toolResults
                     /\ idx' = idx + 1
                     /\ UNCHANGED <<pc, resp>>
    /\ UNCHANGED <<otherVars, handler, req, userInput, conv, completion, sent,
                   sentTools, modelCalls, issued, retryCount,
                   extractedEventDetails, eventInfoResult, tasks,
                   extractedEvent, lowConfSeen>>

\* updatedMessages of lines 380-384
KbUpdatedMessages ==
    conv \o <<AssistantMsg(completion.content, completion.tool_calls)>>
         \o toolResults

\* the final call, without tools
KbFinalCompletion ==
    /\ handler = "kbTool"
    /\ pc = "tools"
    /\ idx > Len(completion.tool_calls)
    /\ modelCalls' = modelCalls + 1
    /\ sent' = KbUpdatedMessages
    /\ sentTools' = FALSE
    /\ \/ Return(Caught("Internal server error", "provider"))
       \/ Return(Success("text"))
    /\ UNCHANGED <<otherVars, handler, req, userInput, conv, completion, idx,
                   issued, retryCount, extractedEventDetails, eventInfoResult,
                   stages, toolResults, execLog, tasks, extractedEvent,
                   lowConfSeen>>

----------------------------------------------------------------------------
(* promptChaining/route.ts *)

maxRetries == 5

ChainThreshold == 7

ChainKinds ==
    { Kind("function", n, "obj") :
        n \in {"extractEventInfo", "extractEventDetails",
               "extractEventConfirmation", "foo"} }
    \cup { Kind("function", "extractEventConfirmation", "empty"),
           Kind("function", "extractEventInfo", "bad"),
           Kind("custom", "extractEventInfo", "obj") }

\* what the stage behind a tool call may answer: it throws (the provider
\* call fails, or responses.parse rejects an output that violates the schema
\* of the stage), its output_text is not JSON, or it returns its structured
\* output (with a confidence score for extractEventInfo, c = -1 otherwise)
Out(k, c) == [k |-> k, c |-> c]

ChainOutcomes(call) ==
    IF call.type # "function" \/ call.args = "bad" THEN {Out("none", -1)}
    ELSE IF call.name = "extractEventInfo"
      THEN {Out("throw", -1), Out("badtext", -1)}
           \cup {Out("ok", c) : c \in {ChainThreshold - 1, ChainThreshold}}
    ELSE IF call.name = "extractEventDetails"
      THEN {Out("throw", -1), Out("badtext", -1), Out("ok", -1)}
    ELSE IF call.name = "extractEventConfirmation"
      THEN {Out("throw", -1), Out("ok", -1)}
    ELSE {Out("none", -1)}

\* executeFunction throws before calling a stage
ExecuteFunctionThrows(call, stored) ==
    \/ call.name \notin {"extractEventInfo", "extractEventDetails",
                         "extractEventConfirmation"}
    \/ /\ call.name = "extractEventConfirmation"
       /\ call.args = "empty"
       /\ stored = 0

\* mutant: the catch block of line 310 pushes no tool message
ChainDispositionSilentCatch(call, exec, stored) ==
    IF call.type # "function" THEN Skipped("nonFunction")
    ELSE IF call.args = "bad" THEN Skipped("badArgs")
    ELSE IF call.name \notin {"extractEventInfo", "extractEventDetails",
                              "extractEventConfirmation"}
      THEN Skipped("unknownTool")
    ELSE IF ExecuteFunctionThrows(call, stored) \/ exec.k = "throw"
      THEN Skipped("executorThrow")
    ELSE IF /\ call.name = "extractEventInfo"
            /\ exec.k = "ok"
            /\ exec.c < ChainThreshold
      THEN Pushed("lowconf", "lowConfidence")
    ELSE IF call.name = "extractEventDetails" /\ exec.k = "badtext"
      THEN Pushed("result", "unparsedDetails")
    ELSE Pushed("result", "")

\* lines 245-321: the whole body is inside the try of line 247; a result of
\* extractEventDetails whose output_text does not parse is pushed like any
\* other result, only the store of line 294 is skipped
ChainDisposition(call, exec, stored) ==
    IF call.type # "function" THEN Skipped("nonFunction")
    ELSE IF call.args = "bad" THEN Pushed("error", "badArgs")
    ELSE IF call.name \notin {"extractEventInfo", "extractEventDetails",
                              "extractEventConfirmation"}
      THEN Pushed("error", "unknownTool")
    ELSE IF ExecuteFunctionThrows(call, stored) \/ exec.k = "throw"
      THEN Pushed("error", "executorThrow")
    ELSE IF /\ call.name = "extractEventInfo"
            /\ exec.k = "ok"
            /\ exec.c < ChainThreshold
      THEN Pushed("lowconf", "lowConfidence")
    ELSE IF call.name = "extractEventDetails" /\ exec.k = "badtext"
      THEN Pushed("result", "unparsedDetails")
    ELSE Pushed("result", "")

\* mutant: a tool call whose stage threw is tried again
NextToolCallRetry(i, d) == IF d.cause = "executorThrow" THEN i ELSE i + 1

\* mutant: the loop goes on without waiting for the next tool call
NextToolCallSkipping(i, d) == i + 2

\* for (const toolCall of toolCalls): the position after tool call i,
\* whatever its disposition d
NextToolCall(i, d) == i + 1

\* mutant: the argument the model wrote is passed on as it is
ConfirmationArgAsWritten(call, stored) ==
    IF call.name # "extractEventConfirmation" THEN 0 ELSE -1

\* the eventDetails extractEventConfirmation is called with (lines 254-259)
ConfirmationArg(call, stored) ==
    IF call.name # "extractEventConfirmation" THEN 0
    ELSE IF stored # 0 THEN stored
    ELSE -1

\* completion.choices[0]?.message?.content || "No response generated"
FinalMessage(c) == IF c.content = "text" THEN "text" ELSE "No response generated"

ChainPOST ==
    /\ handler = "promptChaining"
    /\ pc = "start"
    /\ IF ~req.json
         THEN /\ Return(Escaped)
              /\ UNCHANGED conv
         ELSE IF ~IsArray
           THEN /\ Return(Error(400, "Messages array is required"))
                /\ UNCHANGED conv
           ELSE /\ conv' = <<SystemMsg>> \o req.messages
                /\ pc' = "model"
                /\ UNCHANGED resp
    /\ UNCHANGED <<otherVars, handler, req, userInput, completion, sent,
                   sentTools, modelCalls, idx, issued, retryCount,
                   extractedEventDetails, eventInfoResult, stages,
                   toolResults, execLog, tasks, extractedEvent, lowConfSeen>>

\* openai.chat.completions.create with tools (lines 215 and 334): the call
\* throws, or a completion with or without tool_calls arrives
ChainCreate ==
    /\ modelCalls' = modelCalls + 1
    /\ sent' = conv
    /\ sentTools' = TRUE
    /\ \/ /\ Return(Caught("Failed to process agent request", "provider"))
          /\ UNCHANGED <<completion, issued>>
       \/ \E c \in Completions(ChainKinds, Kind("function", "foo", "obj")) :
            /\ completion' = c
            /\ issued' = issued + Len(c.tool_calls)
            /\ pc' = "while"
            /\ UNCHANGED resp

ChainCompletion ==
    /\ handler = "promptChaining"
    /\ pc = "model"
    /\ ChainCreate
    /\ UNCHANGED <<otherVars, handler, req, userInput, conv, idx, retryCount,
                   extractedEventDetails, eventInfoResult, stages,
                   toolResults, execLog, tasks, extractedEvent, lowConfSeen>>

\* the loop condition of line 228
ChainLoopCondition == completion.has_calls /\ retryCount < maxRetries

\* the while test; the loop body starts by pushing the assistant message
ChainWhile ==
    /\ handler = "promptChaining"
    /\ pc = "while"
    /\ IF ChainLoopCondition
         THEN /\ conv' = Append(conv, AssistantMsg(completion.content,
                                                   completion.tool_calls))
              /\ idx' = 1
              /\ pc' = "tools"
              /\ UNCHANGED resp
         ELSE /\ Return(Success(FinalMessage(completion)))
              /\ UNCHANGED <<conv, idx>>
    /\ UNCHANGED <<otherVars, handler, req, userInput, completion, sent,
                   sentTools, modelCalls, issued, retryCount,
                   extractedEventDetails, eventInfoResult, stages,
                   toolResults, execLog, tasks, extractedEvent, lowConfSeen>>

\* one pass of the for loop over toolCalls
ChainExecute ==
    /\ handler = "promptChaining"
    /\ pc = "tools"
    /\ idx <= Len(completion.tool_calls)
    /\ LET call == completion.tool_calls[idx] IN
       \E exec \in ChainOutcomes(call) :
         LET d == ChainDisposition(call, exec, extractedEventDetails)
             ran == /\ call.type = "function"
                    /\ call.args # "bad"
                    /\ ~ExecuteFunctionThrows(call, extractedEventDetails)
         IN
           /\ execLog' =
                Append(execLog,
                       LogEntry(call, d,
                                IF ran THEN ConfirmationArg(
                                                call, extractedEventDetails)
                                       ELSE 0))
           /\ stages' = IF ran THEN Append(stages, call.name) ELSE stages
           /\ eventInfoResult' =
                IF ran /\ call.name = "extractEventInfo" /\ exec.k = "ok"
                  THEN exec.c ELSE eventInfoResult
           /\ lowConfSeen' = (lowConfSeen \/ d.cause = "lowConfidence")
           /\ extractedEventDetails' =
                IF ran /\ call.name = "extractEventDetails" /\ exec.k = "ok"
                  THEN call.id ELSE extractedEventDetails
           /\ conv' = IF d.act = "push"
                        THEN PushMessage(conv,
                                                   ToolMsg(call.id, d.content))
                        ELSE conv
           /\ idx' = NextToolCall(idx, d)
    /\ UNCHANGED <<otherVars, handler, req, pc, userInput, completion, sent,
                   sentTools, modelCalls, issued, retryCount, toolResults,
                   tasks, extractedEvent, resp>>

\* mutant: the counter is left as it is
IncrementMissing(n) == n

\* retryCount++
Increment(n) == n + 1

\* lines 323-339: count the iteration, then break or call the model again
ChainIterationEnd ==
    /\ handler = "promptChaining"
    /\ pc = "tools"
    /\ idx > Len(completion.tool_calls)
    /\ retryCount' = Increment(retryCount)
    /\ IF retryCount' >= maxRetries
         THEN /\ Return(Success(FinalMessage(completion)))
              /\ UNCHANGED <<completion, sent, sentTools, modelCalls, issued>>
         ELSE ChainCreate
    /\ UNCHANGED <<otherVars, handler, req, userInput, conv, idx,
                   extractedEventDetails, eventInfoResult, stages,
                   toolResults, execLog, tasks, extractedEvent, lowConfSeen>>

Next ==
    \/ ChatPOST \/ ChatCompletion
    \/ RoutingPOST \/ RoutingExtractEvent \/ RoutingNewEvent
    \/ RoutingModifyEvent
    \/ ParallelPOST \/ ParallelValidateInput \/ ParallelSettleEvent
    \/ ParallelSettleSecurity
    \/ ToolPOST \/ ToolCompletion \/ ToolExecute \/ ToolSecondCompletion
    \/ KbPOST \/ KbCompletion \/ KbExecute \/ KbFinalCompletion
    \/ ChainPOST \/ ChainCompletion \/ ChainWhile \/ ChainExecute
    \/ ChainIterationEnd

Spec == Init /\ [][Next]_vars

----------------------------------------------------------------------------
(* The promptChaining handler taken alone, every await of it answered in   *)
(* the end: the model call and the stage behind a tool call return or      *)
(* throw.                                                                  *)

InitChain ==
    /\ Init
    /\ handler = "promptChaining"

\* the answers of the model looked at for termination: text, an empty
\* tool_calls list, or function calls with an arguments object, of a stage
\* or of an unknown function
ChainAnswers ==
    \A i \in 1..Len(completion.tool_calls) :
      /\ completion.tool_calls[i].type = "function"
      /\ completion.tool_calls[i].args = "obj"

\* a step of the handler, as long as the run has made no more than
\* MaxModelCalls model calls
ChainStep ==
    /\ \/ ChainPOST \/ ChainCompletion \/ ChainWhile \/ ChainExecute
       \/ ChainIterationEnd
    /\ ChainAnswers'
    /\ modelCalls' <= MaxModelCalls

SpecChain == InitChain /\ [][ChainStep]_vars /\ WF_vars(ChainStep)

----------------------------------------------------------------------------
(* Two requests handled at the same time.  Node runs one handler at a time *)
(* and goes to another at an await; what a handler keeps across the await  *)
(* is what it declared inside POST.  The modules declare only the client,  *)
(* the schemas and the tools outside POST, and never assign to them.       *)

\* the locals of the running handler
Context ==
    [handler |-> handler, req |-> req, pc |-> pc, userInput |-> userInput,
     conv |-> conv, completion |-> completion, sent |-> sent,
     sentTools |-> sentTools, modelCalls |-> modelCalls, idx |-> idx,
     issued |-> issued, retryCount |-> retryCount,
     extractedEventDetails |-> extractedEventDetails,
     eventInfoResult |-> eventInfoResult, stages |-> stages,
     toolResults |-> toolResults, execLog |-> execLog, tasks |-> tasks,
     extractedEvent |-> extractedEvent, lowConfSeen |-> lowConfSeen,
     resp |-> resp]

\* mutant: retryCount is declared outside POST, one counter for all runs
ResumedSharedCounter(ctx) == [ctx EXCEPT !.retryCount = retryCount]

\* what a handler finds when it is resumed: its own locals (lines 209-226)
Resumed(ctx) == ctx

\* the state of run r
StateOf(r) == IF r = current THEN Context ELSE suspended

\* the answers of the model when two requests are handled: a completion
\* carries one tool call or none, a function call with an arguments object,
\* and each run is issued MaxPairCalls calls at most
PairAnswers ==
    /\ issued <= MaxPairCalls
    /\ completion.has_calls
         => /\ Len(completion.tool_calls) = 1
            /\ completion.tool_calls[1].type = "function"
            /\ completion.tool_calls[1].args = "obj"

\* a tool or promptChaining request, and a promptChaining request with it
InitPair ==
    /\ handler \in {"tool", "promptChaining"}
    /\ req = Body(TRUE, "arr", <<Msg("user", Str(<<" ", "a", " ">>))>>, Undef)
    /\ Entered
    /\ NoSearch
    /\ NoDispatch
    /\ NoHook
    /\ current = 1
    /\ suspended = [Context EXCEPT !.handler = "promptChaining"]

\* the running handler goes on to its next await
HandlerStep ==
    /\ Next
    /\ PairAnswers'

\* the running handler awaits and the other one is resumed
Switch ==
    /\ suspended.pc # "done"
    /\ current' = 3 - current
    /\ suspended' = Context
    /\ LET c == Resumed(suspended) IN
         /\ handler' = c.handler
         /\ req' = c.req
         /\ pc' = c.pc
         /\ userInput' = c.userInput
         /\ conv' = c.conv
         /\ completion' = c.completion
         /\ sent' = c.sent
         /\ sentTools' = c.sentTools
         /\ modelCalls' = c.modelCalls
         /\ idx' = c.idx
         /\ issued' = c.issued
         /\ retryCount' = c.retryCount
         /\ extractedEventDetails' = c.extractedEventDetails
         /\ eventInfoResult' = c.eventInfoResult
         /\ stages' = c.stages
         /\ toolResults' = c.toolResults
         /\ execLog' = c.execLog
         /\ tasks' = c.tasks
         /\ extractedEvent' = c.extractedEvent
         /\ lowConfSeen' = c.lowConfSeen
         /\ resp' = c.resp
    /\ UNCHANGED <<searchVars, dispatchVars, hookVars>>

NextPair == HandlerStep \/ Switch

SpecPair == InitPair /\ [][NextPair]_vars

----------------------------------------------------------------------------
(* The hooks of the client: hooks/useSwrAgent.ts (useAgentPromptChain and  *)
(* useSWROpenAI over useSWRMutation), unnamed/part_003                     *)
(* (useAgentPromptChain over useState) and unnamed/part_004 (useOpenAI).   *)
(* A call of sendMessage reads the messages state of the render in which   *)
(* it is made, awaits the request, and writes the state when the request   *)
(* has been answered.                                                      *)

Hooks == {"useAgentPromptChainSWR", "useSWROpenAI", "useAgentPromptChain",
          "useOpenAI"}

\* the hooks that take a workflow
AgentHooks == {"useAgentPromptChainSWR", "useAgentPromptChain"}

\* the directories of src/app/api that hold a route.ts
RouteHandlers ==
    {"/api/chat", "/api/promptChaining", "/api/routing",
     "/api/parallelization", "/api/tool", "/api/kbTool"}

\* the workflow keys sendMessage is called with; "constructor" is a
\* property every object inherits, and "chat", the first currentWorkflow of
\* useSwrAgent.ts, is a key routeMap does not have
Workflows ==
    {"promptChaining", "routing", "parallelization", "default",
     "constructor"}

\* routeMap: useSwrAgent.ts lines 51-57, part_003 lines 52-58
routeMap(h) ==
    IF h = "useAgentPromptChainSWR"
      THEN [promptChaining |-> "/api/promptChaining",
            routing |-> "/api/routing",
            parallelization |-> "/api/parallelization",
            default |-> "/api/agent"]
      ELSE [promptChaining |-> "/api/prompt-chaining",
            routing |-> "/api/routing",
            parallelization |-> "/api/parallelization",
            default |-> "/api/chat"]

\* routeMap[workflow] || fallback: a key the object literal does not have is
\* looked up in Object.prototype, where "constructor" is a function
getApiRoute(h, workflow) ==
    IF workflow \in DOMAIN routeMap(h) THEN routeMap(h)[workflow]
    ELSE IF workflow = "constructor" THEN "function Object()"
    ELSE IF h = "useAgentPromptChainSWR" THEN "/api/agent"
    ELSE "/api/chat"

\* useState<string>("chat") and useState<string>("default")
InitialWorkflow(h) ==
    IF h = "useAgentPromptChainSWR" THEN "chat"
    ELSE IF h = "useAgentPromptChain" THEN "default"
    ELSE ""

\* a message of the history: n is the call of sendMessage it comes from
HistoryMsg(role, n) == [role |-> role, n |-> n]

\* mutant: the system message is pushed whenever one is given
NewMessagesAlwaysSystem(prior, sys, n) ==
    prior \o (IF Truthy(sys) THEN <<HistoryMsg("system", n)>> ELSE <<>>)
          \o <<HistoryMsg("user", n)>>

\* newMessages: the history read, the system message if one is given and
\* the history is empty, and the user message
NewMessages(prior, sys, n) ==
    prior \o (IF Truthy(sys) /\ Len(prior) = 0
                THEN <<HistoryMsg("system", n)>> ELSE <<>>)
          \o <<HistoryMsg("user", n)>>

\* the system messages sendMessage is given: none, "" and a text
SystemMessages(h) ==
    IF h = "useOpenAI" THEN {Undef} ELSE {Undef, Str(<<>>), Str(<<"s">>)}

\* the key the fetcher of useSWRMutation is handed is the currentWorkflow of
\* a render, the one before or the one after setCurrentWorkflow(workflow);
\* part_003 passes the workflow itself
RouteKeys(h, workflow) ==
    IF h = "useAgentPromptChainSWR" THEN {currentWorkflow, workflow}
    ELSE {workflow}

SendCall(n, sys, key, url, prior) ==
    [op |-> "sendMessage", st |-> "flight", sys |-> sys, key |-> key,
     url |-> url, prior |-> prior, newMessages |-> NewMessages(prior, sys, n)]

ClearCall ==
    [op |-> "clearMessages", st |-> "done", sys |-> Undef, key |-> "",
     url |-> "", prior |-> <<>>, newMessages |-> <<>>]

\* one hook, mounted, with no call made yet
InitHook ==
    /\ handler = "chat"
    /\ req = Body(TRUE, "arr", <<Msg("user", Str(<<"a">>))>>, Undef)
    /\ Entered
    /\ NoSearch
    /\ Alone
    /\ NoDispatch
    /\ hook \in Hooks
    /\ messages = <<>>
    /\ currentWorkflow = InitialWorkflow(hook)
    /\ hookCalls = <<>>

\* sendMessage up to its await
SendMessage ==
    /\ Len(hookCalls) < MaxHookCalls
    /\ \E sys \in SystemMessages(hook) :
       \E workflow \in IF hook \in AgentHooks THEN Workflows ELSE {""} :
       \E key \in RouteKeys(hook, workflow) :
         /\ currentWorkflow' = workflow
         /\ hookCalls' =
              Append(hookCalls,
                     SendCall(Len(hookCalls) + 1, sys, key,
                              IF hook \in AgentHooks
                                THEN getApiRoute(hook, key)
                                ELSE "/api/chat",
                              messages))
    /\ UNCHANGED <<runVars, searchVars, pairVars, dispatchVars, hook,
                   messages>>

\* updatedMessages: newMessages and the reply to call n
Reply(newMessages, n) == newMessages \o <<HistoryMsg("assistant", n)>>

\* the request of call i is answered with a response: setMessages
SendResolved(i) ==
    /\ hookCalls[i].st = "flight"
    /\ hookCalls' = [hookCalls EXCEPT ![i].st = "ok"]
    /\ messages' = Reply(hookCalls[i].newMessages, i)
    /\ UNCHANGED <<runVars, searchVars, pairVars, dispatchVars, hook,
                   currentWorkflow>>

\* the request of call i fails (a response that is not ok, or no response):
\* sendMessage throws again what it caught
SendRejected(i) ==
    /\ hookCalls[i].st = "flight"
    /\ hookCalls' = [hookCalls EXCEPT ![i].st = "failed"]
    /\ UNCHANGED <<runVars, searchVars, pairVars, dispatchVars, hook,
                   messages, currentWorkflow>>

\* the await of call i gives nothing: the test of if (response) fails and
\* sendMessage returns undefined; useOpenAI has no such test
SendEmpty(i) ==
    /\ hook # "useOpenAI"
    /\ hookCalls[i].st = "flight"
    /\ hookCalls' = [hookCalls EXCEPT ![i].st = "empty"]
    /\ UNCHANGED <<runVars, searchVars, pairVars, dispatchVars, hook,
                   messages, currentWorkflow>>

\* clearMessages
ClearMessages ==
    /\ Len(hookCalls) < MaxHookCalls
    /\ hookCalls' = Append(hookCalls, ClearCall)
    /\ messages' = <<>>
    /\ UNCHANGED <<runVars, searchVars, pairVars, dispatchVars, hook,
                   currentWorkflow>>

SendResolves == \E i \in 1..Len(hookCalls) : SendResolved(i)

SendRejects == \E i \in 1..Len(hookCalls) : SendRejected(i)

SendEmpties == \E i \in 1..Len(hookCalls) : SendEmpty(i)

NextHook ==
    \/ SendMessage \/ SendResolves \/ SendRejects \/ SendEmpties
    \/ ClearMessages

SpecHook == InitHook /\ [][NextHook]_vars

----------------------------------------------------------------------------
(* Properties *)

ToolHandlers == {"tool", "kbTool", "promptChaining"}

\* length of the part of the conversation that precedes the run's own
\* assistant and tool messages
PrefixLen == IF handler = "kbTool" THEN 2 ELSE 1 + Len(req.messages)

\* C1: when the model returns tool calls on every response, the promptChaining
\* loop runs maxRetries iterations and then makes one more model call with
\* tools disabled, maxRetries + 1 model calls in all.
C1_LoopBoundThenFinalCall ==
    ( /\ handler = "promptChaining"
      /\ pc = "done"
      /\ resp.kind = "success"
      /\ retryCount = maxRetries
      /\ \A i \in 1..Len(conv) :
           conv[i].has_calls => conv[i].tool_calls # <<>> )
    => /\ modelCalls = maxRetries + 1
       /\ ~sentTools

\* position of the call with the given id in a tool_calls array (0: none)
CallPos(calls, id) ==
    IF \E p \in 1..Len(calls) : calls[p].id = id
      THEN CHOOSE p \in 1..Len(calls) : calls[p].id = id
      ELSE 0

\* ms holds the assistant message carrying calls, then only tool messages,
\* which answer calls of that message in the order of the calls; the tool
\* message of every function call is among them, and no tool message for
\* one of the calls stands before the assistant message
OrderedAfter(ms, calls) ==
    \E i \in 1..Len(ms) :
      /\ ms[i].role = "assistant"
      /\ ms[i].has_calls
      /\ ms[i].tool_calls = calls
      /\ \A j \in (i + 1)..Len(ms) :
           /\ ms[j].role = "tool"
           /\ CallPos(calls, ms[j].tool_call_id) > 0
      /\ \A j, k \in (i + 1)..Len(ms) :
           j < k => CallPos(calls, ms[j].tool_call_id)
                      < CallPos(calls, ms[k].tool_call_id)
      /\ \A p \in 1..Len(calls) :
           calls[p].type = "function"
             => \E j \in (i + 1)..Len(ms) : ms[j].tool_call_id = calls[p].id
      /\ \A j \in 1..(i - 1) :
           ms[j].role = "tool" => CallPos(calls, ms[j].tool_call_id) = 0

\* C2: in the tool, kbTool and promptChaining handlers, every model call after
\* a response with tool calls is sent the assistant message with those calls
\* immediately followed by the tool messages for them, in call order, with
\* nothing else after it, and is made only when all of them are appended.
C2_MessageOrdering ==
    [][ ( /\ handler \in ToolHandlers
          /\ modelCalls >= 1
          /\ modelCalls' = modelCalls + 1 )
        => OrderedAfter(sent', completion.tool_calls) ]_vars

C2_Witness ==
    /\ handler = "promptChaining"
    /\ modelCalls = 2
    /\ Len(sent) = PrefixLen + 3
    /\ Len(sent[PrefixLen + 1].tool_calls) = 2
    /\ sent[PrefixLen + 2].role = "tool"
    /\ sent[PrefixLen + 3].role = "tool"
    /\ sent[PrefixLen + 2].tool_call_id = sent[PrefixLen + 1].tool_calls[1].id
    /\ sent[PrefixLen + 3].tool_call_id = sent[PrefixLen + 1].tool_calls[2].id

\* the tool messages of ms that answer the call id
Answers(ms, id) ==
    { j \in 1..Len(ms) : ms[j].role = "tool" /\ ms[j].tool_call_id = id }

\* index of the nearest assistant message before position j (0: none)
PrecedingAssistant(ms, j) ==
    IF \E i \in 1..(j - 1) : ms[i].role = "assistant"
      THEN CHOOSE i \in 1..(j - 1) :
             /\ ms[i].role = "assistant"
             /\ \A h \in (i + 1)..(j - 1) : ms[h].role # "assistant"
      ELSE 0

\* every tool message the run appended answers a call of the assistant
\* message nearest before it
AnswersPreceding(ms) ==
    \A j \in (PrefixLen + 1)..Len(ms) :
      ms[j].role = "tool"
        => /\ PrecedingAssistant(ms, j) > PrefixLen
           /\ CallPos(ms[PrecedingAssistant(ms, j)].tool_calls,
                      ms[j].tool_call_id) > 0

\* C3 as stated: at every model call after the first, every tool call of an
\* assistant message, of whatever type, has exactly one tool message with its
\* id, and every tool message answers the assistant message before it.
C3_EveryCallAnswered ==
    (handler \in ToolHandlers /\ modelCalls > 1)
    => /\ \A i \in (PrefixLen + 1)..Len(sent) :
            \A p \in 1..Len(sent[i].tool_calls) :
              Cardinality(Answers(sent, sent[i].tool_calls[p].id)) = 1
       /\ AnswersPreceding(sent)

\* C3 amended: at every model call after the first, every function-type tool
\* call the model issued in the run has exactly one tool message with its id,
\* a tool call of another type has none, and every tool message the handler
\* appended answers the assistant message before it.
C3_FunctionCallsAnswered ==
    (handler \in ToolHandlers /\ modelCalls > 1)
    => /\ \A i \in (PrefixLen + 1)..Len(sent) :
            \A p \in 1..Len(sent[i].tool_calls) :
              Cardinality(Answers(sent, sent[i].tool_calls[p].id))
                = IF sent[i].tool_calls[p].type = "function" THEN 1 ELSE 0
       /\ AnswersPreceding(sent)

C3_Witness ==
    /\ handler = "promptChaining"
    /\ modelCalls > 1
    /\ \E i \in (PrefixLen + 1)..Len(sent) :
         /\ Len(sent[i].tool_calls) = 2
         /\ sent[i].tool_calls[1].type = "custom"
         /\ sent[i].tool_calls[2].args = "bad"
         /\ Answers(sent, sent[i].tool_calls[1].id) = {}
         /\ Answers(sent, sent[i].tool_calls[2].id) = {i + 1}
         /\ sent[i + 1].content = Tag("error")

\* the log entry records a call to the stage extractEventDetails
RanDetails(e) ==
    /\ e.name = "extractEventDetails"
    /\ e.act = "push"
    /\ e.cause \in {"", "unparsedDetails", "executorThrow"}

\* C4: in promptChaining, once extractEventInfo has returned a confidence
\* below 0.7, extractEventDetails is not executed later in the run.
C4_LowConfidenceHalts ==
    handler = "promptChaining"
    => \A i, j \in 1..Len(execLog) :
         (i < j /\ execLog[i].cause = "lowConfidence") => ~RanDetails(execLog[j])

\* C5: in routing, a classification below 0.6 ends the run with 'Low
\* confidence score' and neither newEvent nor modifyEvent is called; at 0.6
\* or more the run takes the branch of the classified request_type.
C5_RoutedGate ==
    (handler = "routing" /\ extractedEvent # NoEvent)
    => IF extractedEvent.confidence_score < RoutingThreshold
         THEN /\ pc = "done"
              /\ resp = Error(400, "Low confidence score")
              /\ stages = <<"extractEvent">>
         ELSE IF extractedEvent.request_type = "new_event"
           THEN \/ pc = "newEvent" /\ stages = <<"extractEvent">>
                \/ pc = "done" /\ stages = <<"extractEvent", "newEvent">>
         ELSE IF extractedEvent.request_type = "modify_event"
           THEN \/ pc = "modifyEvent" /\ stages = <<"extractEvent">>
                \/ pc = "done" /\ stages = <<"extractEvent", "modifyEvent">>
         ELSE /\ pc = "done"
              /\ resp = Success("not calendar-related")
              /\ stages = <<"extractEvent">>

C5_Witness ==
    /\ handler = "routing"
    /\ extractedEvent.request_type = "new_event"
    /\ extractedEvent.confidence_score = 5
    /\ resp.error = "Low confidence score"

\* C6: in every tool-executing handler a tool call that fails (unknown tool
\* name, unparsable arguments, executor throwing) yields an error tool
\* message for that call and the run goes on; it does not end the request.
C6_FailureIsolated ==
    handler \in ToolHandlers
    => \A i \in 1..Len(execLog) :
         execLog[i].cause \in {"unknownTool", "badArgs", "executorThrow"}
           => /\ execLog[i].act = "push"
              /\ execLog[i].content = "error"
              /\ resp.cause # execLog[i].cause

\* C7: in the tool and kbTool handlers an executor result that fails the
\* result schema is recorded as an error tool result and the run goes on to
\* the follow-up model call.
C7_ValidationFailureLocal ==
    handler \in {"tool", "kbTool"}
    => /\ resp.cause # "invalidResult"
       /\ \A i \in 1..Len(execLog) :
            execLog[i].cause = "invalidResult"
              => (execLog[i].act = "push" /\ execLog[i].content = "error")

\* the request names a user input (the last user message, or the userInput
\* field when there is no messages array) that is a blank string
BlankInput(b) ==
    /\ b.json
    /\ IF b.mt = "arr"
         THEN /\ SelectUser(b.messages) # <<>>
              /\ LET c == SelectUser(b.messages)[
                              Len(SelectUser(b.messages))].content
                 IN c.t = "str" /\ Trim(c.s) = <<>>
         ELSE b.userInput.t = "str" /\ Trim(b.userInput.s) = <<>>

\* C8: in every handler a request whose user input is empty or whitespace-only
\* is answered with an invalid-input error and no model call is made for it.
C8_BlankInputRejected ==
    BlankInput(req)
    => /\ modelCalls = 0
       /\ stages = <<>>
       /\ pc = "done" => (resp.kind = "error" /\ resp.status = 400)

\* C9 as stated: a request whose messages field is missing or not an array is
\* handled as one with an empty history; it is not answered with an error
\* before any processing.
C9_HistoryNormalised ==
    (req.json /\ req.mt # "arr" /\ pc = "done" /\ modelCalls = 0)
    => resp.kind # "error"

\* C9 amended: a request whose messages field is missing or not an array is
\* never handled as one with an empty history: chat, promptChaining and kbTool
\* answer 400 and tool answers 500, each before any model call; routing and
\* parallelization take the input from the userInput field, and answer 400
\* when that field is missing or blank.
C9_HistoryRejected ==
    (req.json /\ req.mt # "arr")
    => IF handler \in {"routing", "parallelization"}
         THEN /\ pc # "start"
                   => userInput = IF Truthy(req.userInput) THEN req.userInput
                                  ELSE Undef
              /\ (req.userInput.t # "str" \/ Trim(req.userInput.s) = <<>>)
                   => /\ modelCalls = 0
                      /\ pc = "done" => resp.status = 400
         ELSE /\ modelCalls = 0
              /\ conv = <<>>
              /\ pc = "done"
                   => /\ resp.kind = "error"
                      /\ resp.status = IF handler = "tool" THEN 500 ELSE 400

C9_Witness ==
    /\ handler = "chat"
    /\ req.json
    /\ req.mt = "undef"
    /\ resp = Error(400, "Messages array is required")

\* C10: in parallelization both checks are started together, before either
\* result is awaited, each with the trimmed user input, and a success
\* response exists only when both have completed, whichever completes first.
C10_ParallelJoin ==
    handler = "parallelization"
    => /\ tasks["event"].st = "idle" <=> tasks["security"].st = "idle"
       /\ \A k \in DOMAIN tasks :
            tasks[k].st # "idle" => tasks[k].inp = Trim(userInput.s)
       /\ resp.kind = "success" => \A k \in DOMAIN tasks : tasks[k].st = "ok"

C10_Witness ==
    /\ handler = "parallelization"
    /\ tasks["security"].st = "ok"
    /\ tasks["event"].st = "pending"
    /\ tasks["event"].inp = <<"a">>
    /\ resp.kind = "none"

\* C11: in parallelization, when either of the two checks fails the response
\* is an error that carries no validation result, also not the one of the
\* check that succeeded; a response with validationResults carries both the
\* event and the security result.
C11_AllOrNothing ==
    (handler = "parallelization" /\ pc = "done")
    => /\ (\E k \in DOMAIN tasks : tasks[k].st = "failed")
            => (resp.kind = "error" /\ resp.results = {})
       /\ resp.results \in {{}, {"event", "security"}}
       /\ resp.kind = "success" => resp.results = {"event", "security"}

C11_Witness ==
    /\ handler = "parallelization"
    /\ tasks["event"].st = "ok"
    /\ tasks["security"].st = "failed"
    /\ resp.kind = "error"
    /\ resp.status = 500
    /\ resp.results = {}

RECURSIVE Count(_, _)
\* number of occurrences of x in the sequence s
Count(s, x) ==
    IF s = <<>> THEN 0
    ELSE (IF Head(s) = x THEN 1 ELSE 0) + Count(Tail(s), x)

\* C12: in routing, after a classification that passes the threshold, the
\* label alone fixes the model calls of the finished run: new_event makes one
\* newEvent call and no modifyEvent call, modify_event one modifyEvent call
\* and no newEvent call, other no further call and an explanatory message;
\* no run makes more than two model calls.
C12_BranchDispatch ==
    handler = "routing"
    => /\ modelCalls <= 2
       /\ modelCalls = Len(stages)
       /\ ( /\ pc = "done"
            /\ extractedEvent # NoEvent
            /\ extractedEvent.confidence_score >= RoutingThreshold )
          => LET n == Count(stages, "newEvent")
                 m == Count(stages, "modifyEvent")
             IN IF extractedEvent.request_type = "new_event"
                  THEN n = 1 /\ m = 0 /\ modelCalls = 2
                ELSE IF extractedEvent.request_type = "modify_event"
                  THEN n = 0 /\ m = 1 /\ modelCalls = 2
                ELSE /\ n = 0 /\ m = 0 /\ modelCalls = 1
                     /\ resp = Success("not calendar-related")

C12_Witness ==
    /\ handler = "routing"
    /\ pc = "done"
    /\ extractedEvent.request_type = "other"
    /\ extractedEvent.confidence_score = RoutingThreshold
    /\ modelCalls = 1
    /\ resp.kind = "success"

ChainStages ==
    {"extractEventInfo", "extractEventDetails", "extractEventConfirmation"}

\* the log entry records a call of executeFunction that reached its stage
StageRan(e) ==
    /\ e.name \in ChainStages
    /\ e.act = "push"
    /\ e.cause \in {"", "lowConfidence", "unparsedDetails",
                    "executorThrow"}
    /\ e.name = "extractEventConfirmation" => e.arg # 0

\* the log entry records a stage that threw
StageFailed(e) == StageRan(e) /\ e.cause = "executorThrow"

\* C13: in promptChaining, once a stage has failed the validation of its
\* output against its schema, no later stage is executed in the run.
C13_SchemaViolationAborts ==
    handler = "promptChaining"
    => \A i, j \in 1..Len(execLog) :
         (i < j /\ StageFailed(execLog[i])) => ~StageRan(execLog[j])

\* the positions of the records that match under a strategy
Matching(Strategy(_, _)) ==
    { i \in 1..Len(records) : Strategy(Normalized(userQuestion), records[i]) }

\* the least position of a non-empty set of positions
First(S) == CHOOSE i \in S : \A j \in S : i <= j

\* C14: findBestMatch returns the first record matching exactly when some
\* record does, else the first one matching by substring when some record
\* does, else the first one matching by keyword, else null; so a record equal
\* to the user question (lower case, trimmed) wins over an earlier record that
\* matches by substring or by keyword only.
C14_StrategyPriority ==
    bestMatch.returned
    => bestMatch.record =
         IF Matching(ExactMatch) # {} THEN First(Matching(ExactMatch))
         ELSE IF Matching(PartialMatch) # {} THEN First(Matching(PartialMatch))
         ELSE IF Matching(KeywordMatch) # {} THEN First(Matching(KeywordMatch))
         ELSE 0

C14_Witness ==
    /\ userQuestion = <<"a">>
    /\ records = << <<"a", "b">>, <<"A", " ">> >>
    /\ ~ExactMatch(Normalized(userQuestion), records[1])
    /\ PartialMatch(Normalized(userQuestion), records[1])
    /\ ExactMatch(Normalized(userQuestion), records[2])
    /\ bestMatch = Returned(2)

\* the sequence ms holds the message m
Holds(ms, m) == \E j \in 1..Len(ms) : ms[j] = m

C16_AlwaysWellFormed ==
    pc = "done"
    => \/ resp.kind = "success" /\ resp.status = 200
       \/ resp.kind = "error" /\ resp.status \in {400, 500} /\ resp.error # ""

\* the handler rejected the parsed body before calling the model or a stage
InputRejected ==
    /\ pc = "done"
    /\ resp.kind = "error"
    /\ req.json
    /\ modelCalls = 0
    /\ stages = <<>>

\* C17: in every handler a request rejected for its input (missing, not an
\* array, empty, of the wrong type) is answered with status 400, and a failure
\* of the provider or of a schema validation with status 500.
C17_StatusCategories ==
    /\ InputRejected => resp.status = 400
    /\ resp.cause \in {"provider", "stage", "invalidResult"}
         => resp.status = 500

\* number of entries of the log that satisfy Test
CountLog(Test(_)) == Cardinality({ i \in 1..Len(execLog) : Test(execLog[i]) })

\* C18 as stated: in routing, promptChaining and parallelization the
\* classification stage is attempted at most once per run, and a stage that
\* failed is not issued again in the run.
C18_SingleAttempt ==
    /\ handler = "routing" => Count(stages, "extractEvent") <= 1
    /\ handler = "parallelization" => Count(stages, "validateEvent") <= 1
    /\ handler = "promptChaining"
         => /\ Count(stages, "extractEventInfo") <= 1
            /\ \A i, j \in 1..Len(execLog) :
                 (i < j /\ StageFailed(execLog[i]))
                   => ~(StageRan(execLog[j])
                          /\ execLog[j].name = execLog[i].name)

\* C18 amended: in routing and parallelization every stage is attempted at
\* most once per run, failed or not; in promptChaining the handler executes
\* each tool call the model issued once, never a second time after a failure,
\* so a stage runs again only when the model issues another call of it.
C18_NoHandlerRetry ==
    /\ handler = "routing"
         => \A n \in {"extractEvent", "newEvent", "modifyEvent"} :
              Count(stages, n) <= 1
    /\ handler = "parallelization"
         => \A n \in {"validateEvent", "checkSecurity"} : Count(stages, n) <= 1
    /\ handler = "promptChaining"
         => /\ \A i, j \in 1..Len(execLog) :
                 i < j => execLog[i].id < execLog[j].id
            /\ \A i \in 1..Len(execLog) : execLog[i].id <= issued
            /\ Len(stages) = CountLog(StageRan)

C18_Witness ==
    /\ handler = "promptChaining"
    /\ Len(execLog) = 2
    /\ execLog[1].name = "extractEventInfo"
    /\ StageFailed(execLog[1])
    /\ execLog[2].name = "extractEventInfo"
    /\ StageRan(execLog[2])
    /\ execLog[2].id > execLog[1].id
    /\ stages = <<"extractEventInfo", "extractEventInfo">>

\* the iterations of the tool loop that were begun: each begins by pushing
\* the assistant message of the completion
Iterations ==
    Cardinality({ i \in (PrefixLen + 1)..Len(conv) :
                    conv[i].role = "assistant" })

\* C19: in promptChaining, retryCount is 0 at the start, counts the finished
\* iterations of the tool loop (one more per iteration that executed its tool
\* calls), is never above maxRetries, and is below maxRetries whenever tool
\* calls are being executed.
C19_CounterBound ==
    /\ retryCount \in 0..maxRetries
    /\ handler = "promptChaining"
         => /\ pc \in {"start", "model"} => retryCount = 0
            /\ pc = "tools" => /\ retryCount < maxRetries
                               /\ retryCount = Iterations - 1
            /\ pc \in {"while", "done"} /\ conv # <<>>
                 => retryCount = Iterations

C19_Witness ==
    /\ handler = "promptChaining"
    /\ pc = "done"
    /\ retryCount = maxRetries
    /\ Iterations = maxRetries
    /\ Len(execLog) >= maxRetries

\* C20: when two requests are handled with their awaits interleaved in any
\* order, a step of one run changes nothing of the other run (conversation,
\* iteration counter, stored extractions, response), and a run finds its
\* state as it left it when it is resumed: each run goes through the states
\* it goes through alone with the same answers.
C20_RunIndependence ==
    [][ \A r \in {1, 2} :
          (r # current \/ current' # current) => StateOf(r)' = StateOf(r) ]_vars

C20_Witness ==
    /\ current = 2
    /\ handler = "promptChaining"
    /\ pc = "tools"
    /\ retryCount = 0
    /\ suspended.handler = "promptChaining"
    /\ suspended.pc = "while"
    /\ suspended.retryCount = 1
    /\ suspended.conv # conv

\* C21: every run of the promptChaining handler returns a response in the
\* end, whatever the model answers (tool calls, no tool calls, an empty
\* tool_calls list), when every model call and every stage returns or throws.
C21_Termination == <>(pc = "done")

C21_Witness ==
    /\ handler = "promptChaining"
    /\ pc = "done"
    /\ resp.kind = "success"
    /\ retryCount = maxRetries
    /\ \E i \in 1..Len(conv) : conv[i].has_calls /\ conv[i].tool_calls = <<>>
    /\ \E i \in 1..Len(conv) : conv[i].has_calls /\ conv[i].tool_calls # <<>>

\* the log entry records an extractEventDetails call whose output was
\* stored by line 294
StoredDetails(e) ==
    /\ e.name = "extractEventDetails"
    /\ e.act = "push"
    /\ e.cause = ""

\* the positions before j of the log where details were stored
StoredBefore(j) == { i \in 1..(j - 1) : StoredDetails(execLog[i]) }

Last(S) == CHOOSE i \in S : \A k \in S : k <= i

C23_ArgumentShapes ==
    fnOut.done
    => /\ ( /\ fnName = "get_weather"
            /\ fnArgs.shape = "arr"
            /\ Len(fnArgs.items) = 2 )
          => /\ fnOut.out.executor
                  = <<"get_weather", fnArgs.items[1], fnArgs.items[2]>>
             /\ fnOut.out
                  = call_function(fnName,
                                  Args("obj", <<>>, fnArgs.items[1],
                                       fnArgs.items[2]),
                                  fnOut.w)
       /\ ( /\ fnName = "get_weather"
            /\ fnArgs.shape = "obj"
            /\ fnArgs.latitude # "undefined"
            /\ fnArgs.longitude # "undefined" )
          => /\ fnOut.out.executor
                  = <<"get_weather", fnArgs.latitude, fnArgs.longitude>>
             /\ fnOut.out
                  = call_function(fnName,
                                  Args("arr",
                                       <<fnArgs.latitude, fnArgs.longitude>>,
                                       "undefined", "undefined"),
                                  fnOut.w)
       /\ fnName # "get_weather"
          => /\ fnOut.out.threw = "Unknown function"
             /\ fnOut.out.executor = <<>>

C23_Witness ==
    /\ fnOut.done
    /\ fnName = "get_weather"
    /\ fnArgs.shape = "arr"
    /\ Len(fnArgs.items) = 2
    /\ fnArgs.items[1] # fnArgs.items[2]
    /\ fnOut.out.threw = ""
    /\ fnOut.out.result[1].kind = "ok"
    /\ fnOut.out.result[1].latitude = fnArgs.items[1]

\* the ids of the tool calls the assistant messages of ms carry, in order
RECURSIVE IssuedCalls(_)
IssuedCalls(ms) ==
    IF ms = <<>> THEN <<>>
    ELSE LET m == Head(ms) IN
         (IF m.has_calls
            THEN [k \in 1..Len(m.tool_calls) |-> m.tool_calls[k].id]
            ELSE <<>>)
         \o IssuedCalls(Tail(ms))

Sequential == handler \in {"tool", "kbTool", "promptChaining"}

\* the tool calls are dealt with in the order the model issued them: the
\* k-th call dealt with is the k-th call issued (ids number the calls of a
\* run as they are issued)
IssueOrder == Sequential => \A k \in 1..Len(execLog) : execLog[k].id = k

\* every tool call the latest model call was told of has been dealt with
BatchBarrier == Sequential => Len(IssuedCalls(sent)) <= Len(execLog)

\* a step makes at most one model call or executor call
OneCallAStep ==
    Sequential
    => (modelCalls' - modelCalls) + (Len(stages') - Len(stages)) <= 1

\* C24: in tool, kbTool and promptChaining a step of the run makes at most
\* one outbound call (a model call or an executor call), each awaited before
\* the next step; the tool calls of the batches are dealt with one after
\* another in the order the model issued them; and a model call is made only
\* when every tool call issued before it has been dealt with.
C24_StrictlySequential ==
    /\ [](IssueOrder /\ BatchBarrier)
    /\ [][OneCallAStep]_vars

C24_Witness ==
    /\ handler = "promptChaining"
    /\ pc = "done"
    /\ modelCalls = 2
    /\ Len(stages) = 2
    /\ Len(IssuedCalls(sent)) = 2
    /\ IssuedCalls(sent) = <<execLog[1].id, execLog[2].id>>
    /\ \E i \in 1..Len(sent) : sent[i].has_calls /\ Len(sent[i].tool_calls) = 2

\* validation call k fails in this step
FailsNow(k) == tasks[k].st = "pending" /\ tasks'[k].st = "failed"

\* C25: in parallelization, the error response is produced in the step in
\* which the first validation call fails, with the message 'Validation
\* failed: ...' of that call and without waiting for the other call; a later
\* failure of the other call leaves the response as it is.
C25_FirstErrorWins ==
    [][ handler = "parallelization"
        => \A k \in DOMAIN tasks :
             FailsNow(k)
             => IF \E j \in DOMAIN tasks : tasks[j].st = "failed"
                  THEN resp' = resp /\ pc' = pc
                  ELSE /\ pc' = "done"
                       /\ resp' = Caught("Validation failed: " \o k, "stage")
      ]_vars

C25_Witness ==
    /\ handler = "parallelization"
    /\ pc = "done"
    /\ tasks["event"].st = "failed"
    /\ tasks["security"].st = "failed"
    /\ resp.status = 500
    /\ resp.error = "Validation failed: security"

\* the words of a text: what is between its spaces, in lower case
Words(s) ==
    LET ws == Split(ToLowerCase(s))
    IN { ws[i] : i \in 1..Len(ws) } \ {<<>>}

\* a text that is not empty or blank contains the other one
ContainsText(s, t) == Trim(t) # <<>> /\ Includes(ToLowerCase(s), ToLowerCase(t))

\* the question and the question of a record are related: they are the
\* same text, one contains the other, or they share a word
Related(q, question) ==
    \/ Trim(q) # <<>> /\ Normalized(q) = Normalized(question)
    \/ ContainsText(q, question)
    \/ ContainsText(question, q)
    \/ Words(q) \cap Words(question) # {}

\* C26: findBestMatch returns null for every question that shares no word
\* with the question of any record and neither equals, contains nor is
\* contained in the question of any record as real text; an empty or blank
\* question returns null.
C26_UnrelatedReturnsNull ==
    ( /\ bestMatch.returned
      /\ \A i \in 1..Len(records) : ~Related(userQuestion, records[i]) )
    => bestMatch.record = 0

\* the calls of sendMessage made so far
Sends == { i \in 1..Len(hookCalls) : hookCalls[i].op = "sendMessage" }

Strategies == {"promptChaining", "routing", "parallelization"}

\* C27: getApiRoute returns the path of the route handler of the strategy
\* for the keys promptChaining, routing and parallelization, and the path of
\* the chat route for every other key, 'default' included; the path it
\* returns always names a route handler that exists.
C27_RouteExists ==
    hook \in AgentHooks
    => \A i \in Sends :
         /\ hookCalls[i].url \in RouteHandlers
         /\ hookCalls[i].key \in Strategies
              => hookCalls[i].url = "/api/" \o hookCalls[i].key
         /\ hookCalls[i].key \notin Strategies
              => hookCalls[i].url = "/api/chat"

\* the history call i was made with
Prior(i) == hookCalls[i].prior

\* call i is answered in this step
Answered(i, st) == hookCalls[i].st = "flight" /\ hookCalls'[i].st = st

\* C29: in every hook, a sendMessage that fails (or gets no response) leaves
\* the messages state as it is, and one that succeeds sets it to the history
\* the call was made with, then the system message if one was given and that
\* history was empty, then the user message, then the reply.
C29_HistoryFrame ==
    [][ \A i \in Sends :
          /\ (Answered(i, "failed") \/ Answered(i, "empty"))
             => messages' = messages
          /\ Answered(i, "ok")
             => messages' =
                  Prior(i)
                  \o (IF Truthy(hookCalls[i].sys) /\ Prior(i) = <<>>
                        THEN <<HistoryMsg("system", i)>> ELSE <<>>)
                  \o <<HistoryMsg("user", i), HistoryMsg("assistant", i)>>
      ]_vars

C29_Witness ==
    /\ Len(hookCalls) = 2
    /\ hookCalls[1].st = "ok"
    /\ hookCalls[2].st = "failed"
    /\ Truthy(hookCalls[1].sys)
    /\ Truthy(hookCalls[2].sys)
    /\ Prior(2) # <<>>
    /\ messages = <<HistoryMsg("system", 1), HistoryMsg("user", 1),
                    HistoryMsg("assistant", 1)>>

IsPrefix(a, b) == Len(a) <= Len(b) /\ a = SubSeq(b, 1, Len(a))

\* the history holds the user message and the reply of call i
Kept(i) ==
    /\ Holds(messages, HistoryMsg("user", i))
    /\ Holds(messages, HistoryMsg("assistant", i))

NeverCleared == \A i \in 1..Len(hookCalls) : hookCalls[i].op = "sendMessage"

\* every call of sendMessage that has succeeded is in the history
AllKept == NeverCleared => \A i \in Sends : hookCalls[i].st = "ok" => Kept(i)

\* a call that succeeds extends the history
Extends ==
    \A i \in Sends : (NeverCleared /\ Answered(i, "ok"))
                       => IsPrefix(messages, messages')

\* C30: after any number of successful calls of sendMessage, also calls made
\* while an earlier one was in flight, the history holds the user message
\* and the reply of every one of them, and the history after each successful
\* call has the history before it as a prefix.
C30_NoLostUpdate == []AllKept /\ [][Extends]_vars

\* the positions of the tool messages of the conversation
ToolMessages == { i \in 1..Len(conv) : conv[i].role = "tool" }

\* C28: in promptChaining, when the response is returned every tool message
\* of the conversation has been part of a model call, and the completion the
\* text of the response is taken from (the latest one) came from a call made
\* after the last tool message was appended.
C28_ToolResultsReachModel ==
    (handler = "promptChaining" /\ pc = "done" /\ resp.kind = "success")
    => \A i \in ToolMessages : i <= Len(sent) /\ sent[i] = conv[i]
====
